---- MODULE Spec2Model ----
(***************************************************************************)
(* A model of the BER/DER reader of yasna (src/reader/mod.rs).             *)
(*                                                                         *)
(* The engine BERReaderImpl {buf, pos, mode, depth} is modelled field by   *)
(* field.  Every view the code installs in self.buf is a prefix of the     *)
(* input (`&old_buf[..limit]`), so the slice is held as its length         *)
(* buf_len: self.buf is SubSeq(input, 1, buf_len).                         *)
(*                                                                         *)
(* 64-bit machine integers (usize, u64, i64) are held as 8 big-endian      *)
(* base-256 digits, so that the overflow behaviour of checked_mul, + and   *)
(* << is the one of the 64-bit target.  Positions and slice lengths are    *)
(* bounded by the input length and are held as naturals.                   *)
(*                                                                         *)
(* The nested closures of the reader are run by an explicit control stack: *)
(* one action per reader method, closure body or return point.             *)
(***************************************************************************)
EXTENDS Integers, Sequences, FiniteSets, TLC

VARIABLES input, prog, overflow_checks, mode, buf_len, pos, depth,
          stack, ctl, vec, ev

vars == <<input, prog, overflow_checks, mode, buf_len, pos, depth,
          stack, ctl, vec, ev>>

(***************************************************************************)
(* Results: ASN1Result<T>, plus the abort of the process (a Rust panic).   *)
(***************************************************************************)
Ok(v) == [t |-> "Ok", v |-> v]

Err(k) == [t |-> "Err", k |-> k]

Panic(why) == [t |-> "Panic", why |-> why]

ASN1ErrorKind == {"Eof", "Extra", "Invalid", "IntegerOverflow", "StackOverflow"}

Some(v) == [some |-> v]

None == [none |-> TRUE]

IsSome(o) == "some" \in DOMAIN o

Unit == [unit |-> TRUE]

(***************************************************************************)
(* 64-bit words as big-endian digit tuples.                                *)
(***************************************************************************)
WordBytes == 8

Digits == 1..WordBytes

\* n as a 64-bit word, for 0 <= n < 2^31
U64(n) ==
    [i \in Digits |->
        IF i = WordBytes THEN n % 256
        ELSE IF i = WordBytes - 1 THEN (n \div 256) % 256
        ELSE IF i = WordBytes - 2 THEN (n \div 65536) % 256
        ELSE IF i = WordBytes - 3 THEN (n \div 16777216) % 256
        ELSE 0]

\* the word is below 2^31
IsSmall(x) ==
    /\ \A i \in 1..(WordBytes - 4) : x[i] = 0
    /\ x[WordBytes - 3] < 128

\* the value of a word below 2^31
ToNat(x) ==
    x[WordBytes - 3] * 16777216 + x[WordBytes - 2] * 65536
    + x[WordBytes - 1] * 256 + x[WordBytes]

\* x < y, unsigned
LtW(x, y) ==
    \E i \in Digits : /\ x[i] < y[i]
                      /\ \A j \in 1..(i - 1) : x[j] = y[j]

\* u64/usize::checked_mul by a small factor m: ovf is the None case
checked_mul(x, m) ==
    LET c[i \in 0..WordBytes] ==
            IF i = WordBytes THEN 0 ELSE (x[i + 1] * m + c[i + 1]) \div 256
    IN  [ovf |-> c[0] # 0,
         val |-> [i \in Digits |-> (x[i] * m + c[i]) % 256]]

\* x + y on 64 bits: val is the wrapped sum, ovf tells that it wrapped
add(x, y) ==
    LET c[i \in 0..WordBytes] ==
            IF i = WordBytes THEN 0 ELSE (x[i + 1] + y[i + 1] + c[i + 1]) \div 256
    IN  [ovf |-> c[0] # 0,
         val |-> [i \in Digits |-> (x[i] + y[i] + c[i]) % 256]]

\* x - y on 64 bits: val is the wrapped difference, ovf tells that it wrapped
sub(x, y) ==
    LET b[i \in 0..WordBytes] ==
            IF i = WordBytes THEN 0
            ELSE IF x[i + 1] - y[i + 1] - b[i + 1] < 0 THEN 1 ELSE 0
    IN  [ovf |-> b[0] # 0,
         val |-> [i \in Digits |-> (x[i] - y[i] - b[i] + 256) % 256]]

\* `b as i8 as i64`: sign extension of a byte
i8_as_i64(b) ==
    [i \in Digits |-> IF i = WordBytes THEN b ELSE IF b >= 128 THEN 255 ELSE 0]

\* `x << 8` on i64: the top byte is shifted out
shl8(x) == [i \in Digits |-> IF i < WordBytes THEN x[i + 1] ELSE 0]

\* `x | b` for a byte b
or_byte(x, b) ==
    LET lo == x[WordBytes]
        bits[k \in 0..8] ==
            IF k = 8 THEN 0
            ELSE (IF ((lo \div (2 ^ k)) % 2 = 1) \/ ((b \div (2 ^ k)) % 2 = 1)
                  THEN 2 ^ k ELSE 0) + bits[k + 1]
    IN  [x EXCEPT ![WordBytes] = bits[0]]

\* x < y, signed (two's complement)
LtI64(x, y) ==
    LET flip(w) == [w EXCEPT ![1] = (w[1] + 128) % 256]
    IN  LtW(flip(x), flip(y))

\* -n as an i64, for 0 < n < 2^24
NegI64(n) == sub(U64(0), U64(n)).val

(***************************************************************************)
(* Tags (src/basics/mod.rs)                                                *)
(***************************************************************************)
TAG_CLASSES == <<"Universal", "Application", "ContextSpecific", "Private">>

PCS == <<"Primitive", "Constructed">>

Tag(class, number) == [tag_class |-> class, tag_number |-> U64(number)]

TAG_EOC == Tag("Universal", 0)

TAG_BOOLEAN == Tag("Universal", 1)

TAG_INTEGER == Tag("Universal", 2)

TAG_BITSTRING == Tag("Universal", 3)

TAG_OCTETSTRING == Tag("Universal", 4)

TAG_NULL == Tag("Universal", 5)

TAG_OID == Tag("Universal", 6)

TAG_SEQUENCE == Tag("Universal", 16)

TAG_SET == Tag("Universal", 17)

BER_READER_STACK_DEPTH == 100

(***************************************************************************)
(* The engine: e = [buf_len, pos, mode, depth]; every engine operation     *)
(* returns [e |-> the engine after it, r |-> its result].                  *)
(* Let(v, K) binds the value of a `let`: K is applied to v.                *)
(***************************************************************************)
Let(v, K(_)) == K(v)

\* self.buf[i] for the 0-based index i
buf_at(e, i) == input[i + 1]

read_u8(e) ==
    IF e.pos < e.buf_len
    THEN [e |-> [e EXCEPT !.pos = e.pos + 1], r |-> Ok(buf_at(e, e.pos))]
    ELSE [e |-> e, r |-> Err("Eof")]

\* `&self.buf[self.pos..]`: the slice aborts when pos is past the end
fetch_remaining_buffer(e) ==
    IF e.pos > e.buf_len
    THEN [e |-> e, r |-> Panic("slice start index out of range")]
    ELSE [e |-> [e EXCEPT !.pos = e.buf_len],
          r |-> Ok(SubSeq(input, e.pos + 1, e.buf_len))]

end_of_buf(e) ==
    IF e.pos # e.buf_len
    THEN [e |-> e, r |-> Err("Extra")]
    ELSE [e |-> e, r |-> Ok(Unit)]

\* the loop of read_identifier for the long form of the tag number
RECURSIVE read_tag_number(_, _)
read_tag_number(e, tag_number) ==
    Let(read_u8(e), LAMBDA b :
    IF b.r.t # "Ok" THEN b
    ELSE Let(checked_mul(tag_number, 128), LAMBDA x :
         IF x.ovf THEN [e |-> b.e, r |-> Err("IntegerOverflow")]
         ELSE Let(add(x.val, U64(b.r.v % 128)).val, LAMBDA n :
              IF b.r.v \div 128 = 0
              THEN [e |-> b.e, r |-> Ok(n)]
              ELSE read_tag_number(b.e, n))))

read_identifier(e) ==
    Let(read_u8(e), LAMBDA tb :
    IF tb.r.t # "Ok" THEN tb
    ELSE
    LET tagbyte == tb.r.v
        tag_class == TAG_CLASSES[(tagbyte \div 64) + 1]
        pc == PCS[((tagbyte \div 32) % 2) + 1]
    IN  IF tagbyte % 32 = 31
        THEN Let(read_tag_number(tb.e, U64(0)), LAMBDA tn :
             IF tn.r.t # "Ok" THEN tn
             ELSE IF LtW(tn.r.v, U64(31))
             THEN [e |-> tn.e, r |-> Err("Invalid")]
             ELSE [e |-> tn.e,
                   r |-> Ok([tag |-> [tag_class |-> tag_class,
                                      tag_number |-> tn.r.v],
                             pc |-> pc])])
        ELSE [e |-> tb.e,
              r |-> Ok([tag |-> [tag_class |-> tag_class,
                                 tag_number |-> U64(tagbyte % 32)],
                        pc |-> pc])])

\* the loop of read_length over the n octets of a long-form length
RECURSIVE read_length_octets(_, _, _)
read_length_octets(e, n, length) ==
    IF n = 0 THEN [e |-> e, r |-> Ok(length)]
    ELSE Let(checked_mul(length, 256), LAMBDA x :
         IF x.ovf THEN [e |-> e, r |-> Err("Eof")]
         ELSE Let(read_u8(e), LAMBDA b :
              IF b.r.t # "Ok" THEN b
              ELSE read_length_octets(b.e, n - 1, add(x.val, U64(b.r.v)).val)))

read_length(e) ==
    Let(read_u8(e), LAMBDA lb :
    IF lb.r.t # "Ok" THEN lb
    ELSE
    LET lbyte == lb.r.v IN
    IF lbyte = 128 THEN [e |-> lb.e, r |-> Ok(None)]
    ELSE IF lbyte = 255 THEN [e |-> lb.e, r |-> Err("Invalid")]
    ELSE IF lbyte \div 128 = 0 THEN [e |-> lb.e, r |-> Ok(Some(U64(lbyte)))]
    ELSE Let(read_length_octets(lb.e, lbyte % 128, U64(0)), LAMBDA l :
         IF l.r.t # "Ok" THEN l
         ELSE IF e.mode = "Der" /\ LtW(l.r.v, U64(128))
         THEN [e |-> l.e, r |-> Err("Invalid")]
         ELSE [e |-> l.e, r |-> Ok(Some(l.r.v))]))

end_of_contents(e) ==
    Let(read_identifier(e), LAMBDA id :
    IF id.r.t # "Ok" THEN id
    ELSE IF id.r.v.tag # TAG_EOC \/ id.r.v.pc # "Primitive"
    THEN [e |-> id.e, r |-> Err("Invalid")]
    ELSE Let(read_u8(id.e), LAMBDA b :
         IF b.r.t # "Ok" THEN b
         ELSE IF b.r.v # 0 THEN [e |-> b.e, r |-> Err("Invalid")]
         ELSE [e |-> b.e, r |-> Ok(Unit)]))

(***************************************************************************)
(* read_general, lines 159-189: everything before the callback is invoked. *)
(* An Ok result carries the locals the rest of the call needs.             *)
(***************************************************************************)
\* a variant that accepts the indefinite form in Der mode too
read_general_narrow_any_mode(e, old_pos, pc, length_spec) ==
    LET old_buf == e.buf_len
        locals == [old_pos |-> old_pos, old_buf |-> old_buf,
                   length_spec |-> length_spec, pc |-> pc]
    IN
    IF IsSome(length_spec)
    THEN Let(add(U64(e.pos), length_spec.some), LAMBDA limit :
         IF limit.ovf /\ overflow_checks
         THEN [e |-> e, r |-> Panic("attempt to add with overflow")]
         ELSE IF LtW(U64(old_buf), limit.val)
         THEN [e |-> e, r |-> Err("Eof")]
         ELSE [e |-> [e EXCEPT !.buf_len = ToNat(limit.val),
                               !.depth = e.depth + 1],
               r |-> Ok(locals)])
    ELSE IF pc # "Constructed" THEN [e |-> e, r |-> Err("Invalid")]
    ELSE [e |-> [e EXCEPT !.depth = e.depth + 1], r |-> Ok(locals)]

\* lines 171-189: the buffer view is narrowed and the depth incremented
read_general_narrow(e, old_pos, pc, length_spec) ==
    LET old_buf == e.buf_len
        locals == [old_pos |-> old_pos, old_buf |-> old_buf,
                   length_spec |-> length_spec, pc |-> pc]
    IN
    IF IsSome(length_spec)
    THEN Let(add(U64(e.pos), length_spec.some), LAMBDA limit :
         IF limit.ovf /\ overflow_checks
         THEN [e |-> e, r |-> Panic("attempt to add with overflow")]
         ELSE IF LtW(U64(old_buf), limit.val)
         THEN [e |-> e, r |-> Err("Eof")]
         ELSE [e |-> [e EXCEPT !.buf_len = ToNat(limit.val),
                               !.depth = e.depth + 1],
               r |-> Ok(locals)])
    ELSE IF pc # "Constructed" THEN [e |-> e, r |-> Err("Invalid")]
    ELSE IF e.mode = "Der" THEN [e |-> e, r |-> Err("Invalid")]
    ELSE [e |-> [e EXCEPT !.depth = e.depth + 1], r |-> Ok(locals)]

\* a variant that leaves out `self.pos = old_pos;` on a tag mismatch
read_general_enter_no_restore(e, tag) ==
    IF e.depth > BER_READER_STACK_DEPTH
    THEN [e |-> e, r |-> Err("StackOverflow")]
    ELSE
    Let(read_identifier(e), LAMBDA id :
    IF id.r.t # "Ok" THEN id
    ELSE IF id.r.v.tag # tag
    THEN [e |-> id.e, r |-> Err("Invalid")]
    ELSE
    Let(read_length(id.e), LAMBDA ls :
    IF ls.r.t # "Ok" THEN ls
    ELSE read_general_narrow(ls.e, e.pos, id.r.v.pc, ls.r.v)))

read_general_enter(e, tag) ==
    IF e.depth > BER_READER_STACK_DEPTH
    THEN [e |-> e, r |-> Err("StackOverflow")]
    ELSE
    Let(read_identifier(e), LAMBDA id :
    IF id.r.t # "Ok" THEN id
    ELSE IF id.r.v.tag # tag
    THEN [e |-> [id.e EXCEPT !.pos = e.pos], r |-> Err("Invalid")]
    ELSE
    Let(read_length(id.e), LAMBDA ls :
    IF ls.r.t # "Ok" THEN ls
    ELSE read_general_narrow(ls.e, e.pos, id.r.v.pc, ls.r.v)))

(***************************************************************************)
(* read_general, lines 190-201: from the return of the callback on.        *)
(* cr is the callback's result, fr the locals saved at entry.              *)
(***************************************************************************)
read_general_exit(e, fr, cr) ==
    IF cr.t # "Ok" THEN [e |-> e, r |-> cr]
    ELSE
    Let([e EXCEPT !.depth = e.depth - 1], LAMBDA e1 :
    Let(IF IsSome(fr.length_spec) THEN end_of_buf(e1) ELSE end_of_contents(e1),
        LAMBDA t :
        IF t.r.t # "Ok" THEN t
        ELSE [e |-> [t.e EXCEPT !.buf_len = fr.old_buf], r |-> cr]))

(***************************************************************************)
(* The closures the typed decoders pass to read_general.                   *)
(***************************************************************************)
read_bool_body(e, pc) ==
    IF pc # "Primitive" THEN [e |-> e, r |-> Err("Invalid")]
    ELSE
    Let(fetch_remaining_buffer(e), LAMBDA f :
    IF f.r.t # "Ok" THEN f
    ELSE LET buf == f.r.v IN
         IF Len(buf) # 1 THEN [e |-> f.e, r |-> Err("Invalid")]
         ELSE LET b == buf[1] IN
              IF e.mode = "Der" /\ b # 0 /\ b # 255
              THEN [e |-> f.e, r |-> Err("Invalid")]
              ELSE [e |-> f.e, r |-> Ok([bool |-> b # 0])])

\* a variant of the loop that sign-extends each byte: `b as i8 as i64`
RECURSIVE read_i64_loop_signed(_, _, _)
read_i64_loop_signed(buf, i, x) ==
    IF i > Len(buf) THEN x
    ELSE read_i64_loop_signed(buf, i + 1,
             IF buf[i] >= 128 THEN i8_as_i64(buf[i]) ELSE or_byte(shl8(x), buf[i]))

\* the loop `for &b in buf[2..].iter() { x = (x << 8) | (b as i64); }`
RECURSIVE read_i64_loop(_, _, _)
read_i64_loop(buf, i, x) ==
    IF i > Len(buf) THEN x
    ELSE read_i64_loop(buf, i + 1, or_byte(shl8(x), buf[i]))

read_i64_body(e, pc) ==
    IF pc # "Primitive" THEN [e |-> e, r |-> Err("Invalid")]
    ELSE
    Let(fetch_remaining_buffer(e), LAMBDA f :
    IF f.r.t # "Ok" THEN f
    ELSE
    LET buf == f.r.v IN
    IF Len(buf) = 0 THEN [e |-> f.e, r |-> Err("Invalid")]
    ELSE IF Len(buf) = 1 THEN [e |-> f.e, r |-> Ok([i64 |-> i8_as_i64(buf[1])])]
    ELSE
    Let(add(shl8(i8_as_i64(buf[1])), U64(buf[2])).val, LAMBDA x :
    IF ~LtI64(x, NegI64(128)) /\ LtI64(x, U64(128))
    THEN [e |-> f.e, r |-> Err("Invalid")]
    ELSE IF Len(buf) > 8 THEN [e |-> f.e, r |-> Err("IntegerOverflow")]
    ELSE [e |-> f.e, r |-> Ok([i64 |-> read_i64_loop(buf, 3, x)])]))

read_bitstring_body(e, pc) ==
    IF pc = "Constructed" THEN [e |-> e, r |-> Err("Invalid")]
    ELSE
    Let(fetch_remaining_buffer(e), LAMBDA f :
    IF f.r.t # "Ok" THEN f
    ELSE
    LET buf == f.r.v IN
    IF Len(buf) = 0
    THEN [e |-> f.e, r |-> Ok([unused_bits |-> 0, buf |-> <<>>])]
    ELSE
    \* buf[1..buf.len()-remain/8]
    Let(sub(U64(Len(buf)), U64(buf[1] \div 8)), LAMBDA end :
        IF end.ovf /\ overflow_checks
        THEN [e |-> f.e, r |-> Panic("attempt to subtract with overflow")]
        ELSE IF LtW(U64(Len(buf)), end.val)
        THEN [e |-> f.e, r |-> Panic("slice end index out of range")]
        ELSE IF ToNat(end.val) < 1
        THEN [e |-> f.e, r |-> Panic("slice index starts after its end")]
        ELSE [e |-> f.e,
              r |-> Ok([unused_bits |-> buf[1] % 8,
                        buf |-> SubSeq(buf, 2, ToNat(end.val))])]))

read_null_body(e, pc) ==
    IF pc # "Primitive" THEN [e |-> e, r |-> Err("Invalid")]
    ELSE
    Let(fetch_remaining_buffer(e), LAMBDA f :
    IF f.r.t # "Ok" THEN f
    ELSE IF Len(f.r.v) # 0 THEN [e |-> f.e, r |-> Err("Invalid")]
    ELSE [e |-> f.e, r |-> Ok(Unit)])

\* a variant whose first boundary is off by one
first_arcs_off_by_one(subid) ==
    LET id0 == IF LtW(subid, U64(41)) THEN 0
               ELSE IF LtW(subid, U64(80)) THEN 1 ELSE 2
    IN  <<U64(id0), sub(subid, U64(40 * id0)).val>>

\* the first two arcs, from the first subidentifier
first_arcs(subid) ==
    LET id0 == IF LtW(subid, U64(40)) THEN 0
               ELSE IF LtW(subid, U64(80)) THEN 1 ELSE 2
    IN  <<U64(id0), sub(subid, U64(40 * id0)).val>>

\* the loop `for &b in buf.iter()` of read_oid: i is the next index
RECURSIVE read_oid_loop(_, _, _, _)
read_oid_loop(buf, i, subid, ids) ==
    IF i > Len(buf) THEN Ok([oid |-> ids])
    ELSE IF buf[i] = 128 THEN Err("Invalid")
    ELSE
    Let(checked_mul(subid, 128), LAMBDA m :
    IF m.ovf THEN Err("IntegerOverflow")
    ELSE
    Let(add(m.val, U64(buf[i] % 128)).val, LAMBDA s :
    IF buf[i] \div 128 = 0
    THEN IF Len(ids) = 0
         THEN read_oid_loop(buf, i + 1, U64(0), first_arcs(s))
         ELSE read_oid_loop(buf, i + 1, U64(0), Append(ids, s))
    ELSE read_oid_loop(buf, i + 1, s, ids)))

read_oid_body(e, pc) ==
    IF pc # "Primitive" THEN [e |-> e, r |-> Err("Invalid")]
    ELSE
    Let(fetch_remaining_buffer(e), LAMBDA f :
    IF f.r.t # "Ok" THEN f
    ELSE
    LET buf == f.r.v IN
    IF Len(buf) = 0 \/ buf[Len(buf)] >= 128
    THEN [e |-> f.e, r |-> Err("Invalid")]
    ELSE [e |-> f.e, r |-> read_oid_loop(buf, 1, U64(0), <<>>)])

(***************************************************************************)
(* The decode callbacks of the caller, by name.  A callback receives a     *)
(* BERReader and calls one of its methods; a sequence or set callback      *)
(* receives a BERReaderSeq and reads its fields in order, with `try!` on    *)
(* each of them, through next(), read_optional or read_default.            *)
(***************************************************************************)
Callbacks ==
    [bool       |-> [k |-> "read_bool"],
     i64        |-> [k |-> "read_i64"],
     bitstring  |-> [k |-> "read_bitstring"],
     bytes      |-> [k |-> "read_bytes"],
     bytes_impl |-> [k |-> "read_bytes_impl"],
     null       |-> [k |-> "read_null"],
     oid        |-> [k |-> "read_oid"],
     tagged     |-> [k |-> "read_tagged", tag |-> Tag("ContextSpecific", 0),
                     inner |-> "i64"],
     seq        |-> [k |-> "read_sequence",
                     fields |-> <<[f |-> "next", cb |-> "i64"],
                                  [f |-> "read_optional", cb |-> "bool"],
                                  [f |-> "read_default", cb |-> "i64",
                                   default |-> [i64 |-> U64(0)]]>>],
     set        |-> [k |-> "read_set",
                     fields |-> <<[f |-> "read_optional", cb |-> "null"],
                                  [f |-> "read_optional", cb |-> "bytes"]>>],
     nest       |-> [k |-> "read_sequence",
                     fields |-> <<[f |-> "next", cb |-> "nest"]>>],
     optnest    |-> [k |-> "read_sequence",
                     fields |-> <<[f |-> "read_optional", cb |-> "optnest"]>>]]

\* the tag a reader method hands to read_general
TagOf(node) ==
    CASE node.k = "read_bool" -> TAG_BOOLEAN
      [] node.k = "read_i64" -> TAG_INTEGER
      [] node.k = "read_bitstring" -> TAG_BITSTRING
      [] node.k = "read_bytes_impl" -> TAG_OCTETSTRING
      [] node.k = "read_null" -> TAG_NULL
      [] node.k = "read_oid" -> TAG_OID
      [] node.k = "read_tagged" -> node.tag
      [] node.k = "read_sequence" -> TAG_SEQUENCE
      [] node.k = "read_set" -> TAG_SET

(***************************************************************************)
(* The machine: s = [e, stack, ctl, vec, ev].                              *)
(*   ctl  [c |-> "call", cb]      a callback is handed a fresh BERReader   *)
(*        [c |-> "body", cb, pc]  read_general invokes its closure         *)
(*        [c |-> "cursor"]        a sequence callback reads its next field *)
(*        [c |-> "loop"]          the loop of read_bytes_impl iterates     *)
(*        [c |-> "ret", r]        a call returns r to the frame on top     *)
(*        [c |-> "done", r]       parse_ber_general has returned r, or the *)
(*                                process has aborted                      *)
(*   ev   what the last step did (a history record, not program state)     *)
(***************************************************************************)
Top(s) == s.stack[Len(s.stack)]

Pop(st) == SubSeq(st, 1, Len(st) - 1)

Node(s) == Callbacks[s.ctl.cb]

\* the control after an engine operation: a panic ends the process
After(r) == IF r.t = "Panic" THEN [c |-> "done", r |-> r] ELSE [c |-> "ret", r |-> r]

AtCall(s, kinds) == s.ctl.c = "call" /\ Node(s).k \in kinds

AtBody(s, kind) == s.ctl.c = "body" /\ Node(s).k = kind

AtRet(s, frame) == s.ctl.c = "ret" /\ Top(s).f = frame

\* the bytes the closure would fetch, for the history record
Remaining(e) == IF e.pos > e.buf_len THEN <<>> ELSE SubSeq(input, e.pos + 1, e.buf_len)

\* the history record of a call of read_general
read_general_event(s, tag, id, ls, r) ==
    LET matched == id.r.t = "Ok" /\ id.r.v.tag = tag IN
    [op |-> "read_general", cb |-> s.ctl.cb, tag |-> tag, e0 |-> s.e,
     identifier |-> id.r, matched |-> matched,
     length_octets |-> IF matched THEN SubSeq(input, id.e.pos + 1, ls.e.pos) ELSE <<>>,
     length |-> IF matched THEN ls.r ELSE Err("Invalid"),
     r |-> r]

ReadGeneralHistory(s, r) ==
    Let(read_identifier(s.e), LAMBDA id :
    Let(read_length(id.e), LAMBDA ls :
        read_general_event(s, TagOf(Node(s)), id, ls, r)))

\* BERReader::read_general / BERReaderImpl::read_general up to the closure
\* (e0 and e1 in the frame are history: the engine at entry and the engine
\* the closure is invoked with)
ReadGeneralStep(s) ==
    Let(read_general_enter(s.e, TagOf(Node(s))), LAMBDA x :
    Let(ReadGeneralHistory(s, x.r), LAMBDA h :
        IF x.r.t = "Ok"
        THEN [s EXCEPT !.e = x.e,
                       !.stack = Append(s.stack,
                           [f |-> "read_general", cb |-> s.ctl.cb,
                            old_pos |-> x.r.v.old_pos, old_buf |-> x.r.v.old_buf,
                            length_spec |-> x.r.v.length_spec, pc |-> x.r.v.pc,
                            e0 |-> s.e, e1 |-> x.e]),
                       !.ctl = [c |-> "body", cb |-> s.ctl.cb, pc |-> x.r.v.pc],
                       !.ev = h]
        ELSE [s EXCEPT !.e = x.e, !.ctl = After(x.r), !.ev = h]))

\* read_general from the return of its closure on
ReadGeneralReturnStep(s) ==
    Let(read_general_exit(s.e, Top(s), s.ctl.r), LAMBDA x :
    [s EXCEPT !.e = x.e, !.stack = Pop(s.stack), !.ctl = After(x.r),
              !.ev = [op |-> "read_general_return", cb |-> Top(s).cb, fr |-> Top(s),
                      e0 |-> s.e, cr |-> s.ctl.r, r |-> x.r]])

\* a closure that runs to its end in one piece
BodyStep(s, x, op) ==
    [s EXCEPT !.e = x.e, !.ctl = After(x.r),
              !.ev = [op |-> op, pc |-> s.ctl.pc, body |-> Remaining(s.e),
                      e0 |-> s.e, r |-> x.r]]

ReadBoolStep(s) == BodyStep(s, read_bool_body(s.e, s.ctl.pc), "read_bool")

ReadI64Step(s) == BodyStep(s, read_i64_body(s.e, s.ctl.pc), "read_i64")

ReadBitstringStep(s) == BodyStep(s, read_bitstring_body(s.e, s.ctl.pc), "read_bitstring")

ReadNullStep(s) == BodyStep(s, read_null_body(s.e, s.ctl.pc), "read_null")

ReadOidStep(s) == BodyStep(s, read_oid_body(s.e, s.ctl.pc), "read_oid")

\* read_bytes: `let mut ret = Vec::new(); try!(self.read_bytes_impl(&mut ret))`
ReadBytesStep(s) ==
    [s EXCEPT !.vec = <<>>,
              !.stack = Append(s.stack, [f |-> "read_bytes"]),
              !.ctl = [c |-> "call", cb |-> "bytes_impl"],
              !.ev = [op |-> "read_bytes"]]

ReadBytesReturnStep(s) ==
    Let(IF s.ctl.r.t = "Ok" THEN Ok([bytes |-> s.vec]) ELSE s.ctl.r, LAMBDA r :
    [s EXCEPT !.stack = Pop(s.stack), !.ctl = [c |-> "ret", r |-> r],
              !.ev = [op |-> "read_bytes_return", r |-> r]])

\* read_optional up to its callback: `let old_pos = self.pos;`
\* (cb and e0 are history: the callback and the engine at entry)
read_optional_enter(s, cb) ==
    [s EXCEPT !.stack = Append(s.stack, [f |-> "read_optional", old_pos |-> s.e.pos,
                                         cb |-> cb, e0 |-> s.e]),
              !.ctl = [c |-> "call", cb |-> cb]]

\* a variant that turns every error into None
read_optional_exit_swallow(e, old_pos, cr) ==
    IF cr.t = "Ok" THEN Ok(Some(cr.v)) ELSE Ok(None)

\* read_optional from the return of its callback on
read_optional_exit(e, old_pos, cr) ==
    IF cr.t = "Ok" THEN Ok(Some(cr.v))
    ELSE IF old_pos = e.pos THEN Ok(None)
    ELSE cr

ReadOptionalReturnStep(s) ==
    Let(read_optional_exit(s.e, Top(s).old_pos, s.ctl.r), LAMBDA r :
    [s EXCEPT !.stack = Pop(s.stack), !.ctl = [c |-> "ret", r |-> r],
              !.ev = [op |-> "read_optional", old_pos |-> Top(s).old_pos,
                      cb |-> Top(s).cb, e0 |-> Top(s).e0, e1 |-> s.e,
                      cr |-> s.ctl.r, r |-> r]])

\* the closure of read_bytes_impl
ReadBytesImplStep(s) ==
    IF s.ctl.pc = "Constructed"
    THEN IF s.e.mode = "Der"
         THEN [s EXCEPT !.ctl = [c |-> "ret", r |-> Err("Invalid")],
                        !.ev = [op |-> "read_bytes_impl", pc |-> s.ctl.pc,
                                r |-> Err("Invalid")]]
         ELSE [s EXCEPT !.stack = Append(s.stack, [f |-> "read_bytes_impl"]),
                        !.ctl = [c |-> "loop"],
                        !.ev = [op |-> "read_bytes_impl", pc |-> s.ctl.pc]]
    ELSE Let(fetch_remaining_buffer(s.e), LAMBDA x :
         IF x.r.t # "Ok"
         THEN [s EXCEPT !.e = x.e, !.ctl = After(x.r),
                        !.ev = [op |-> "read_bytes_impl", pc |-> s.ctl.pc, r |-> x.r]]
         ELSE [s EXCEPT !.e = x.e, !.vec = s.vec \o x.r.v,
                        !.ctl = [c |-> "ret", r |-> Ok(Unit)],
                        !.ev = [op |-> "read_bytes_impl", pc |-> s.ctl.pc,
                                r |-> Ok(Unit)]])

\* one iteration of the loop of read_bytes_impl: inner.read_optional(...)
BytesLoopStep(s) ==
    [read_optional_enter(s, "bytes_impl") EXCEPT !.ev = [op |-> "bytes_loop"]]

\* `let result = try!(...); match result { Some(()) => {}, None => break }`
BytesLoopReturnStep(s) ==
    LET cr == s.ctl.r IN
    IF cr.t # "Ok"
    THEN [s EXCEPT !.stack = Pop(s.stack), !.ev = [op |-> "bytes_loop_return", r |-> cr]]
    ELSE IF IsSome(cr.v)
    THEN [s EXCEPT !.ctl = [c |-> "loop"], !.ev = [op |-> "bytes_loop_return", r |-> cr]]
    ELSE [s EXCEPT !.stack = Pop(s.stack), !.ctl = [c |-> "ret", r |-> Ok(Unit)],
                   !.ev = [op |-> "bytes_loop_return", r |-> cr]]

\* the closure of read_tagged
ReadTaggedStep(s) ==
    IF s.ctl.pc # "Constructed"
    THEN [s EXCEPT !.ctl = [c |-> "ret", r |-> Err("Invalid")],
                   !.ev = [op |-> "read_tagged", pc |-> s.ctl.pc]]
    ELSE [s EXCEPT !.ctl = [c |-> "call", cb |-> Node(s).inner],
                   !.ev = [op |-> "read_tagged", pc |-> s.ctl.pc]]

\* the closure of read_sequence and of read_set
cursor_body(s, op) ==
    IF s.ctl.pc # "Constructed"
    THEN [s EXCEPT !.ctl = [c |-> "ret", r |-> Err("Invalid")],
                   !.ev = [op |-> op, pc |-> s.ctl.pc]]
    ELSE [s EXCEPT !.stack = Append(s.stack,
                       [f |-> "callback", cb |-> s.ctl.cb, i |-> 1, acc |-> <<>>]),
                   !.ctl = [c |-> "cursor"],
                   !.ev = [op |-> op, pc |-> s.ctl.pc]]

ReadSequenceStep(s) == cursor_body(s, "read_sequence")

ReadSetStep(s) == cursor_body(s, "read_set")

\* the field the sequence callback on top of the stack reads next
Fields(s) == Callbacks[Top(s).cb].fields

AtField(s, kind) ==
    /\ s.ctl.c = "cursor"
    /\ Top(s).i <= Len(Fields(s))
    /\ Fields(s)[Top(s).i].f = kind

\* BERReaderSeq::next: a fresh reader for the next child
CursorNextStep(s) ==
    [s EXCEPT !.ctl = [c |-> "call", cb |-> Fields(s)[Top(s).i].cb],
              !.ev = [op |-> "next"]]

\* BERReaderSeq::read_optional
CursorReadOptionalStep(s) ==
    [read_optional_enter(s, Fields(s)[Top(s).i].cb) EXCEPT !.ev = [op |-> "cursor_read_optional"]]

\* BERReaderSeq::read_default up to the callback
CursorReadDefaultStep(s) ==
    LET fld == Fields(s)[Top(s).i] IN
    [read_optional_enter(
        [s EXCEPT !.stack = Append(s.stack,
                      [f |-> "read_default", default |-> fld.default])],
        fld.cb) EXCEPT !.ev = [op |-> "cursor_read_default"]]

\* a variant that rejects the default value in Ber mode instead of Der mode
read_default_exit_ber(e, default, cr) ==
    IF cr.t # "Ok" THEN cr
    ELSE IF IsSome(cr.v)
    THEN IF e.mode = "Ber" /\ cr.v.some = default THEN Err("Invalid")
         ELSE Ok(cr.v.some)
    ELSE Ok(default)

\* BERReaderSeq::read_default from the return of read_optional on
read_default_exit(e, default, cr) ==
    IF cr.t # "Ok" THEN cr
    ELSE IF IsSome(cr.v)
    THEN IF e.mode = "Der" /\ cr.v.some = default THEN Err("Invalid")
         ELSE Ok(cr.v.some)
    ELSE Ok(default)

ReadDefaultReturnStep(s) ==
    Let(read_default_exit(s.e, Top(s).default, s.ctl.r), LAMBDA r :
    [s EXCEPT !.stack = Pop(s.stack), !.ctl = [c |-> "ret", r |-> r],
              !.ev = [op |-> "read_default", default |-> Top(s).default,
                      cr |-> s.ctl.r, r |-> r]])

\* a field has been read: `try!` it and go on with the next one
CallbackResumeStep(s) ==
    IF s.ctl.r.t # "Ok"
    THEN [s EXCEPT !.stack = Pop(s.stack), !.ev = [op |-> "callback_try"]]
    ELSE [s EXCEPT !.stack = Append(Pop(s.stack),
                       [Top(s) EXCEPT !.i = Top(s).i + 1,
                                      !.acc = Append(Top(s).acc, s.ctl.r.v)]),
                   !.ctl = [c |-> "cursor"],
                   !.ev = [op |-> "callback_try"]]

\* the sequence callback has read all its fields and returns them
CallbackReturnStep(s) ==
    [s EXCEPT !.stack = Pop(s.stack),
              !.ctl = [c |-> "ret", r |-> Ok([seq |-> Top(s).acc])],
              !.ev = [op |-> "callback_return"]]

\* a variant that leaves out `try!(reader_impl.end_of_buf())`
parse_ber_general_exit_unchecked(e, cr) == cr

\* parse_ber_general from the return of the callback on
parse_ber_general_exit(e, cr) ==
    IF cr.t # "Ok" THEN cr
    ELSE Let(end_of_buf(e), LAMBDA x : IF x.r.t # "Ok" THEN x.r ELSE cr)

ParseReturnStep(s) ==
    Let(parse_ber_general_exit(s.e, s.ctl.r), LAMBDA r :
    [s EXCEPT !.stack = Pop(s.stack), !.ctl = [c |-> "done", r |-> r],
              !.ev = [op |-> "parse_ber_general", cr |-> s.ctl.r, e0 |-> s.e, r |-> r]])

GeneralKinds ==
    {"read_bool", "read_i64", "read_bitstring", "read_bytes_impl", "read_null",
     "read_oid", "read_tagged", "read_sequence", "read_set"}

\* the step the machine takes in s; s itself when the parse is over
Step(s) ==
    IF s.ctl.c = "done" THEN s
    ELSE IF AtCall(s, {"read_bytes"}) THEN ReadBytesStep(s)
    ELSE IF AtCall(s, GeneralKinds) THEN ReadGeneralStep(s)
    ELSE IF AtBody(s, "read_bool") THEN ReadBoolStep(s)
    ELSE IF AtBody(s, "read_i64") THEN ReadI64Step(s)
    ELSE IF AtBody(s, "read_bitstring") THEN ReadBitstringStep(s)
    ELSE IF AtBody(s, "read_null") THEN ReadNullStep(s)
    ELSE IF AtBody(s, "read_oid") THEN ReadOidStep(s)
    ELSE IF AtBody(s, "read_bytes_impl") THEN ReadBytesImplStep(s)
    ELSE IF AtBody(s, "read_tagged") THEN ReadTaggedStep(s)
    ELSE IF AtBody(s, "read_sequence") THEN ReadSequenceStep(s)
    ELSE IF AtBody(s, "read_set") THEN ReadSetStep(s)
    ELSE IF s.ctl.c = "loop" THEN BytesLoopStep(s)
    ELSE IF AtField(s, "next") THEN CursorNextStep(s)
    ELSE IF AtField(s, "read_optional") THEN CursorReadOptionalStep(s)
    ELSE IF AtField(s, "read_default") THEN CursorReadDefaultStep(s)
    ELSE IF s.ctl.c = "cursor" THEN CallbackReturnStep(s)
    ELSE IF AtRet(s, "read_general") THEN ReadGeneralReturnStep(s)
    ELSE IF AtRet(s, "read_optional") THEN ReadOptionalReturnStep(s)
    ELSE IF AtRet(s, "read_default") THEN ReadDefaultReturnStep(s)
    ELSE IF AtRet(s, "read_bytes_impl") THEN BytesLoopReturnStep(s)
    ELSE IF AtRet(s, "read_bytes") THEN ReadBytesReturnStep(s)
    ELSE IF AtRet(s, "callback") THEN CallbackResumeStep(s)
    ELSE ParseReturnStep(s)

\* the result parse_ber_general returns when run from s
RECURSIVE Run(_)
Run(s) == IF s.ctl.c = "done" THEN s.ctl.r ELSE Run(Step(s))

\* parse_ber_general(buf, mode, callback) up to the call of the callback
parse_ber_general_enter(buf, m, cb) ==
    [e |-> [buf_len |-> Len(buf), pos |-> 0, mode |-> m, depth |-> 0],
     stack |-> <<[f |-> "parse_ber_general"]>>,
     ctl |-> [c |-> "call", cb |-> cb],
     vec |-> <<>>,
     ev |-> [op |-> "new"]]

(***************************************************************************)
(* Inputs: pairs <<buffer, callback>>.  The raw buffers are all the byte   *)
(* strings up to MaxLen over the bytes the callback's reader tells apart;  *)
(* the longer buffers are built from TLVs for the callback that reads them.*)
(***************************************************************************)
SeqsUpTo(S, n) == UNION {[1..k -> S] : k \in 0..n}

Fill(k, b) == [i \in 1..k |-> b]

\* a definite short-form TLV, and an indefinite-form one
TLV(tag, body) == <<tag, Len(body)>> \o body

Indef(tag, body) == <<tag, 128>> \o body \o <<0, 0>>

\* the encodings of a constructed value tried for each body
Wrap(tag, body) ==
    {TLV(tag, body), Indef(tag, body), <<tag, 129, Len(body)>> \o body,
     TLV(tag, body) \o <<0>>}

Modes == {"Ber", "Der"}

TopCallbacks == DOMAIN Callbacks \ {"bytes_impl"}

MaxLen == 3

CoreBytes == {0, 1, 2, 128, 129, 255}

TagBytes ==
    [bool |-> {1}, i64 |-> {2}, bitstring |-> {3, 8}, bytes |-> {4, 36},
     null |-> {5}, oid |-> {6}, tagged |-> {160}, seq |-> {48}, set |-> {49, 5},
     nest |-> {48}, optnest |-> {48, 31}]

RawPairs ==
    UNION {{<<buf, cb>> : buf \in SeqsUpTo(CoreBytes \cup TagBytes[cb], MaxLen)} :
           cb \in TopCallbacks}

\* INTEGER bodies: every short body, and two leading bytes before a padding
MaxIntHead == 3

MaxIntPad == 7

IntBytes == {0, 1, 127, 128, 255}

IntBodies ==
    SeqsUpTo(IntBytes, MaxIntHead)
    \cup {h \o Fill(k, t) : h \in [1..2 -> IntBytes], k \in 1..MaxIntPad, t \in {0, 1, 255}}

IntPairs == {<<TLV(2, b), "i64">> : b \in IntBodies}

\* OBJECT IDENTIFIER bodies
MaxOidLen == 3

MaxOidLong == 10

OidBytes == {0, 1, 39, 40, 79, 80, 127, 128, 129, 255}

OidBodies ==
    SeqsUpTo(OidBytes, MaxOidLen)
    \cup {Fill(k, 255) \o <<127>> : k \in 8..MaxOidLong}
    \cup {<<42, 134, 72>>, <<129, 128, 0>>}

OidPairs == {<<TLV(6, b), "oid">> : b \in OidBodies}

\* BIT STRING bodies
MaxBitRest == 2

BitFirst == {0, 1, 7, 8, 9, 16, 255}

BitBodies == {<<>>} \cup {<<u>> \o r : u \in BitFirst, r \in SeqsUpTo({0, 170}, MaxBitRest)}

BitPairs == {<<TLV(3, b), "bitstring">> : b \in BitBodies}

\* long-form lengths, on an OCTET STRING
MaxLenOctets == 2

LenOctets == {0, 1, 127, 128, 255}

LengthHeaders ==
    UNION {{<<128 + n>> \o o : o \in [1..n -> LenOctets]} : n \in 1..MaxLenOctets}
    \cup {<<136>> \o Fill(8, 255), <<137, 1>> \o Fill(8, 0), <<136>> \o Fill(7, 0) \o <<1>>}

LengthPairs ==
    {<<<<4>> \o h \o b, "bytes">> :
        h \in LengthHeaders, b \in {<<>>, <<170>>, Fill(128, 0)}}

\* SEQUENCE { INTEGER, BOOLEAN OPTIONAL, INTEGER DEFAULT 0 }
SeqBodies ==
    {a \o b \o c \o d :
        a \in {<<2, 1, 0>>, <<2, 1, 5>>, <<2, 0>>},
        b \in {<<>>, <<1, 1, 255>>, <<1, 1, 1>>, <<1, 1, 0>>},
        c \in {<<>>, <<2, 1, 0>>, <<2, 1, 7>>, <<2, 2, 0, 0>>,
               <<2, 9, 1>> \o Fill(8, 0)},
        d \in {<<>>, <<5, 0>>}}

SeqPairs == {<<w, "seq">> : w \in UNION {Wrap(48, b) : b \in SeqBodies}}

\* SET { NULL OPTIONAL, OCTET STRING OPTIONAL }
SetBodies ==
    {a \o b :
        a \in {<<>>, <<5, 0>>, <<5, 1, 0>>},
        b \in {<<>>, <<4, 1, 170>>, <<4, 0>>, <<36, 6, 4, 1, 170, 4, 1, 187>>,
               <<36, 128, 4, 1, 170, 0, 0>>, <<36, 3, 4, 1>>, <<36, 0>>,
               <<36, 128, 36, 128, 4, 1, 170, 0, 0, 0, 0>>}}

SetPairs == {<<w, "set">> : w \in UNION {Wrap(49, b) : b \in SetBodies}}

\* [0] EXPLICIT INTEGER
TaggedPairs ==
    {<<w, "tagged">> :
        w \in Wrap(160, <<2, 1, 5>>) \cup Wrap(128, <<2, 1, 5>>)
              \cup Wrap(160, <<2, 1, 5, 0>>) \cup Wrap(160, <<>>)}

\* n nested indefinite-length constructed layers
MaxNest == 102

NestLevels == {1, 2} \cup ((MaxNest - 2)..MaxNest)

Nest(tag, n) == [i \in 1..(2 * n) |-> IF i % 2 = 1 THEN tag ELSE 128] \o Fill(2 * n, 0)

DeepPairs ==
    {<<Nest(48, n), cb>> : n \in NestLevels, cb \in {"nest", "optnest"}}
    \cup {<<Nest(36, n), "bytes">> : n \in NestLevels}

\* SEQUENCE { SEQUENCE { ... } OPTIONAL } around a field of another type
OptNestPairs ==
    {<<w, "optnest">> :
        w \in Wrap(48, <<48, 2, 5, 0>>) \cup Wrap(48, <<48, 0>>)
              \cup Wrap(48, <<48, 3, 48, 0>>)}

\* an indefinite-length SEQUENCE of the INTEGER 1, and the same around a
\* primitive identifier
IndefPairs ==
    {<<Indef(48, <<2, 1, 1>>), "seq">>, <<Indef(16, <<2, 1, 1>>), "seq">>,
     <<<<48, 128, 2, 1, 1, 0, 1>>, "seq">>, <<<<48, 128, 2, 1, 1, 32, 0>>, "seq">>,
     <<<<48, 128, 2, 1, 1, 0>>, "seq">>, <<<<2, 128, 1, 0, 0>>, "i64">>}

InputPairs ==
    RawPairs \cup IntPairs \cup OidPairs \cup BitPairs \cup LengthPairs
    \cup SeqPairs \cup SetPairs \cup TaggedPairs \cup OptNestPairs \cup DeepPairs
    \cup IndefPairs

St ==
    [e |-> [buf_len |-> buf_len, pos |-> pos, mode |-> mode, depth |-> depth],
     stack |-> stack, ctl |-> ctl, vec |-> vec, ev |-> ev]

Set(s) ==
    /\ buf_len' = s.e.buf_len
    /\ pos' = s.e.pos
    /\ mode' = s.e.mode
    /\ depth' = s.e.depth
    /\ stack' = s.stack
    /\ ctl' = s.ctl
    /\ vec' = s.vec
    /\ ev' = s.ev
    /\ UNCHANGED <<input, prog, overflow_checks>>

InitWith(buf, m, cb, oc) ==
    Let(parse_ber_general_enter(buf, m, cb), LAMBDA s :
    /\ input = buf
    /\ prog = cb
    /\ overflow_checks = oc
    /\ buf_len = s.e.buf_len
    /\ pos = s.e.pos
    /\ mode = s.e.mode
    /\ depth = s.e.depth
    /\ stack = s.stack
    /\ ctl = s.ctl
    /\ vec = s.vec
    /\ ev = s.ev)

Init ==
    \E p \in InputPairs, m \in Modes, oc \in BOOLEAN :
        InitWith(p[1], m, p[2], oc)

ReadBytes == AtCall(St, {"read_bytes"}) /\ Set(ReadBytesStep(St))

ReadGeneral == AtCall(St, GeneralKinds) /\ Set(ReadGeneralStep(St))

ReadBool == AtBody(St, "read_bool") /\ Set(ReadBoolStep(St))

ReadI64 == AtBody(St, "read_i64") /\ Set(ReadI64Step(St))

ReadBitstring == AtBody(St, "read_bitstring") /\ Set(ReadBitstringStep(St))

ReadNull == AtBody(St, "read_null") /\ Set(ReadNullStep(St))

ReadOid == AtBody(St, "read_oid") /\ Set(ReadOidStep(St))

ReadBytesImpl == AtBody(St, "read_bytes_impl") /\ Set(ReadBytesImplStep(St))

ReadTagged == AtBody(St, "read_tagged") /\ Set(ReadTaggedStep(St))

ReadSequence == AtBody(St, "read_sequence") /\ Set(ReadSequenceStep(St))

ReadSet == AtBody(St, "read_set") /\ Set(ReadSetStep(St))

BytesLoop == ctl.c = "loop" /\ Set(BytesLoopStep(St))

CursorNext == AtField(St, "next") /\ Set(CursorNextStep(St))

CursorReadOptional == AtField(St, "read_optional") /\ Set(CursorReadOptionalStep(St))

CursorReadDefault == AtField(St, "read_default") /\ Set(CursorReadDefaultStep(St))

CallbackReturn ==
    /\ ctl.c = "cursor"
    /\ Top(St).i > Len(Fields(St))
    /\ Set(CallbackReturnStep(St))

ReadGeneralReturn == AtRet(St, "read_general") /\ Set(ReadGeneralReturnStep(St))

ReadOptionalReturn == AtRet(St, "read_optional") /\ Set(ReadOptionalReturnStep(St))

ReadDefaultReturn == AtRet(St, "read_default") /\ Set(ReadDefaultReturnStep(St))

BytesLoopReturn == AtRet(St, "read_bytes_impl") /\ Set(BytesLoopReturnStep(St))

ReadBytesReturn == AtRet(St, "read_bytes") /\ Set(ReadBytesReturnStep(St))

CallbackResume == AtRet(St, "callback") /\ Set(CallbackResumeStep(St))

ParseReturn == AtRet(St, "parse_ber_general") /\ Set(ParseReturnStep(St))

Next ==
    \/ ReadBytes
    \/ ReadGeneral
    \/ ReadBool
    \/ ReadI64
    \/ ReadBitstring
    \/ ReadNull
    \/ ReadOid
    \/ ReadBytesImpl
    \/ ReadTagged
    \/ ReadSequence
    \/ ReadSet
    \/ BytesLoop
    \/ CursorNext
    \/ CursorReadOptional
    \/ CursorReadDefault
    \/ CallbackReturn
    \/ ReadGeneralReturn
    \/ ReadOptionalReturn
    \/ ReadDefaultReturn
    \/ BytesLoopReturn
    \/ ReadBytesReturn
    \/ CallbackResume
    \/ ParseReturn

Spec == Init /\ [][Next]_vars

TypeOK ==
    /\ ctl.c \in {"call", "body", "cursor", "loop", "ret", "done"}
    /\ pos \in Nat
    /\ buf_len \in 0..Len(input)

\* the state parse_ber_general starts the callback in
Initial == ctl.c = "call" /\ Len(stack) = 1 /\ ev.op = "new"

Done == ctl.c = "done"

(***************************************************************************)
(* C1: every parse ends in a value or in one of the five typed errors, it  *)
(* never aborts, and pos <= buf.len() holds in every engine state.         *)
(***************************************************************************)
C1_TypedResultInBounds ==
    /\ pos <= buf_len
    /\ Done => /\ ctl.r.t \in {"Ok", "Err"}
               /\ ctl.r.t = "Err" => ctl.r.k \in ASN1ErrorKind

(***************************************************************************)
(* C2: the depth never exceeds 100: no read_general entered at depth 100   *)
(* or more invokes its callback, and the one that would have, had the      *)
(* depth allowed it, fails with StackOverflow.                             *)
(***************************************************************************)
C2_DepthAtMostLimit ==
    /\ depth <= BER_READER_STACK_DEPTH
    /\ (ev.op = "read_general" /\ ev.e0.depth >= BER_READER_STACK_DEPTH) =>
           /\ ev.r.t # "Ok"
           /\ (ev.matched /\ ev.length.t = "Ok") => ev.r = Err("StackOverflow")

(***************************************************************************)
(* C3: parse_ber_general returns Ok only if the position equals the length *)
(* of the input when the callback returns; when the callback succeeded and *)
(* bytes remain, it returns Extra.                                         *)
(***************************************************************************)
C3_OkOnlyAtEndOfInput ==
    /\ (Done /\ ctl.r.t = "Ok") => pos = Len(input)
    /\ ev.op = "parse_ber_general" =>
          /\ (ev.cr.t = "Ok" /\ ev.e0.pos # Len(input)) => ev.r = Err("Extra")
          /\ ev.r.t = "Ok" => (ev.cr = ev.r /\ ev.e0.pos = Len(input))

C3_Witness ==
    /\ Done
    /\ ctl.r.t = "Ok"
    /\ ev.op = "parse_ber_general"
    /\ Len(input) >= 5
    /\ prog = "seq"

(***************************************************************************)
(* C4: a buffer a callback accepts in Der mode is accepted by the same     *)
(* callback in Ber mode, with the same value.                              *)
(***************************************************************************)
RunIn(m) == Run([St EXCEPT !.e.mode = m])

C4_DerImpliesBer ==
    (Initial /\ mode = "Der") =>
        Let(RunIn("Der"), LAMBDA d : d.t = "Ok" => RunIn("Ber") = d)

C4_Witness ==
    /\ Initial
    /\ mode = "Der"
    /\ prog = "seq"
    /\ Len(input) >= 8
    /\ RunIn("Der").t = "Ok"

(***************************************************************************)
(* C5: in Der mode read_length fails with Invalid on every long-form       *)
(* length that fewer octets could encode: a value below 128, or a first    *)
(* length octet of zero.                                                   *)
(***************************************************************************)
\* o: the octets read_length consumed, a long form given in full
NonMinimalLongForm(o) ==
    /\ Len(o) >= 2
    /\ o[1] > 128
    /\ o[1] < 255
    /\ Len(o) = 1 + (o[1] - 128)
    /\ \/ o[2] = 0
       \/ Len(o) = 2 /\ o[2] < 128

C5_NonMinimalLengthRejected ==
    (/\ ev.op = "read_general"
     /\ ev.matched
     /\ ev.e0.mode = "Der"
     /\ NonMinimalLongForm(ev.length_octets))
        => ev.length = Err("Invalid")

(***************************************************************************)
(* C6: read_optional returns None and leaves the position where it was     *)
(* when the identifier at the position is not the expected tag; it returns *)
(* the callback's error when the callback failed with the position         *)
(* advanced.                                                               *)
(***************************************************************************)
\* the tag the reader method of callback cb hands to read_general
ExpectedTag(cb) ==
    IF cb = "bytes" THEN TAG_OCTETSTRING ELSE TagOf(Callbacks[cb])

\* the identifier at the position read_optional was entered at is another tag
Mismatch(h) ==
    Let(read_identifier(h.e0), LAMBDA id :
        id.r.t = "Ok" /\ id.r.v.tag # ExpectedTag(h.cb))

C6_OptionalNonCommitting ==
    ev.op = "read_optional" =>
        /\ Mismatch(ev) => (ev.cr.t = "Err" /\ ev.r = Ok(None) /\ ev.e1.pos = ev.e0.pos)
        /\ (ev.cr.t = "Err" /\ ev.e1.pos > ev.e0.pos) => ev.r = ev.cr

C6_Witness ==
    /\ ev.op = "read_optional"
    /\ Mismatch(ev)
    /\ ev.cr = Err("Invalid")
    /\ ev.r = Ok(None)
    /\ ev.e0.pos > 0

C6_WitnessAdvanced ==
    /\ ev.op = "read_optional"
    /\ ev.cr.t = "Err"
    /\ ev.e1.pos > ev.e0.pos
    /\ ev.r = ev.cr

C7_WitnessEof ==
    /\ ev.op = "read_optional"
    /\ ev.cr = Err("Eof")
    /\ ev.r = Ok(None)

C7_WitnessExtra ==
    /\ ev.op = "read_optional"
    /\ ev.cr = Err("Extra")
    /\ ev.r = ev.cr

C7_WitnessIntegerOverflow ==
    /\ ev.op = "read_optional"
    /\ ev.cr = Err("IntegerOverflow")
    /\ ev.r = ev.cr

(***************************************************************************)
(* C8: an ObjectIdentifier read_oid returns has at least 2 arcs; the first *)
(* subidentifier S0 gives (0, S0), (1, S0 - 40) or (2, S0 - 80), and every *)
(* later subidentifier is one further arc, in wire order.                  *)
(***************************************************************************)
\* the subidentifiers of a body as numbers (each below 2^31)
RECURSIVE SubIds(_, _, _)
SubIds(body, i, cur) ==
    IF i > Len(body) THEN <<>>
    ELSE IF body[i] >= 128 THEN SubIds(body, i + 1, cur * 128 + (body[i] - 128))
    ELSE <<cur * 128 + body[i]>> \o SubIds(body, i + 1, 0)

\* the arcs the table of the first subidentifier gives for a body
RefArcs(body) ==
    Let(SubIds(body, 1, 0), LAMBDA ids :
        (IF ids[1] < 40 THEN <<0, ids[1]>>
         ELSE IF ids[1] < 80 THEN <<1, ids[1] - 40>>
         ELSE <<2, ids[1] - 80>>) \o Tail(ids))

\* the bodies short enough for their subidentifiers and their value to be
\* computed as numbers: 4 bytes of subidentifier are 28 bits
IsShort(body) == Len(body) <= WordBytes \div 2

C8_OidArcs ==
    (ev.op = "read_oid" /\ ev.r.t = "Ok") =>
        /\ Len(ev.r.v.oid) >= 2
        /\ ev.r.v.oid[1] \in {U64(0), U64(1), U64(2)}
        /\ ev.r.v.oid[1] \in {U64(0), U64(1)} => LtW(ev.r.v.oid[2], U64(40))
        /\ IsShort(ev.body) =>
              Let(RefArcs(ev.body), LAMBDA ref :
                  ev.r.v.oid = [i \in 1..Len(ref) |-> U64(ref[i])])

C8_Witness ==
    /\ ev.op = "read_oid"
    /\ ev.r.t = "Ok"
    /\ ev.body = <<42, 134, 72>>
    /\ ev.r.v.oid = <<U64(1), U64(2), U64(840)>>

C8_WitnessLargeFirst ==
    /\ ev.op = "read_oid"
    /\ ev.r.t = "Ok"
    /\ ev.body = <<129, 0, 1>>
    /\ ev.r.v.oid = <<U64(2), U64(48), U64(1)>>

(***************************************************************************)
(* C9: a BitString read_bitstring returns has unused_bits < 8, a non-empty *)
(* byte vector when unused_bits > 0, and, for a non-empty primitive body,  *)
(* the whole body after its first byte as its bytes.                       *)
(***************************************************************************)
C9_BitStringInvariant ==
    (ev.op = "read_bitstring" /\ ev.r.t = "Ok") =>
        /\ ev.r.v.unused_bits < 8
        /\ ev.r.v.unused_bits > 0 => Len(ev.r.v.buf) > 0
        /\ Len(ev.body) > 0 => ev.r.v.buf = Tail(ev.body)

(***************************************************************************)
(* C10: read_i64 on a primitive INTEGER: an empty body is Invalid; two or  *)
(* more bytes whose first two, sign-extended, lie in [-128, 128) are       *)
(* Invalid; more than 8 bytes are IntegerOverflow; every other body gives  *)
(* its big-endian two's-complement value.                                  *)
(***************************************************************************)
SignedByte(b) == IF b >= 128 THEN b - 256 ELSE b

\* the value of the first n bytes of a body, n <= 3
RECURSIVE BodyValue(_, _)
BodyValue(b, n) ==
    IF n = 1 THEN SignedByte(b[1]) ELSE BodyValue(b, n - 1) * 256 + b[n]

\* n as an i64, for -2^31 < n < 2^31
I64(n) == IF n >= 0 THEN U64(n) ELSE sub(U64(0), U64(0 - n)).val

\* a body of at most 8 bytes, sign-extended to 64 bits
SignExtend(b) ==
    [i \in Digits |->
        IF i > WordBytes - Len(b) THEN b[i - (WordBytes - Len(b))]
        ELSE IF b[1] >= 128 THEN 255 ELSE 0]

RefI64(b) ==
    IF Len(b) = 0 THEN Err("Invalid")
    ELSE IF Len(b) >= 2 /\ BodyValue(b, 2) >= -128 /\ BodyValue(b, 2) < 128
    THEN Err("Invalid")
    ELSE IF Len(b) > WordBytes THEN Err("IntegerOverflow")
    ELSE IF IsShort(b \o <<0>>) THEN Ok([i64 |-> I64(BodyValue(b, Len(b)))])
    ELSE Ok([i64 |-> SignExtend(b)])

C10_ReadI64Reference ==
    (ev.op = "read_i64" /\ ev.pc = "Primitive" /\ ev.r.t # "Panic")
        => ev.r = RefI64(ev.body)

C10_Witness ==
    /\ ev.op = "read_i64"
    /\ ev.pc = "Primitive"
    /\ ev.body = <<0, 255>>
    /\ ev.r = Ok([i64 |-> U64(255)])

C10_WitnessNegative ==
    /\ ev.op = "read_i64"
    /\ ev.pc = "Primitive"
    /\ Len(ev.body) = WordBytes
    /\ ev.body[1] = 255
    /\ ev.r.t = "Ok"

C10_WitnessOverflow ==
    /\ ev.op = "read_i64"
    /\ ev.pc = "Primitive"
    /\ ev.r = Err("IntegerOverflow")

(***************************************************************************)
(* C11: a definite-length read_general consumes exactly one TLV: it fails  *)
(* with Eof when the declared length reaches past the enclosing view; its  *)
(* callback sees the window [pos, pos + length) only; it fails with Extra  *)
(* when the callback leaves bytes of the window unread; and when it        *)
(* returns Ok the position is the end of the TLV and the view and the      *)
(* depth are the ones before the call.                                     *)
(***************************************************************************)
\* read_general has read a definite length L at a depth that lets it go on
DefiniteEntry ==
    /\ ev.op = "read_general"
    /\ ev.e0.depth <= BER_READER_STACK_DEPTH
    /\ ev.matched
    /\ ev.length.t = "Ok"
    /\ IsSome(ev.length.v)

\* the length L, declared at position p, reaches past a view of n bytes
PastView(p, L, n) == ~IsSmall(L) \/ ToNat(L) > n - p

\* the definite-length read_general frames the callbacks run in
DefiniteFrames ==
    {i \in 1..Len(stack) :
        stack[i].f = "read_general" /\ IsSome(stack[i].length_spec)}

\* the window of frame fr: from the end of its header, length bytes
InWindow(fr) ==
    /\ IsSmall(fr.length_spec.some)
    /\ fr.e1.buf_len = fr.e1.pos + ToNat(fr.length_spec.some)
    /\ fr.e1.buf_len <= fr.e0.buf_len
    /\ fr.e1.pos <= pos
    /\ pos <= buf_len
    /\ buf_len <= fr.e1.buf_len

\* the end of the header of the TLV at the position of engine e
HeaderEnd(e) ==
    Let(read_identifier(e), LAMBDA id : read_length(id.e).e.pos)

C11_EofPastView ==
    (DefiniteEntry /\ PastView(pos, ev.length.v.some, ev.e0.buf_len))
        => ev.r = Err("Eof")

C11_CallbackInWindow ==
    ~Done => \A i \in DefiniteFrames : InWindow(stack[i])

C11_ExtraAndRestore ==
    (ev.op = "read_general_return" /\ IsSome(ev.fr.length_spec)) =>
        /\ (ev.cr.t = "Ok" /\ ev.e0.pos # ev.e0.buf_len) => ev.r = Err("Extra")
        /\ ev.r.t = "Ok" =>
              /\ ev.fr.e1.pos = HeaderEnd(ev.fr.e0)
              /\ pos = ev.fr.e1.pos + ToNat(ev.fr.length_spec.some)
              /\ buf_len = ev.fr.e0.buf_len
              /\ depth = ev.fr.e0.depth

C11_ExactlyOneTLV ==
    /\ C11_EofPastView
    /\ C11_CallbackInWindow
    /\ C11_ExtraAndRestore

\* the declared length, added to the position, fits the machine word
NoWordOverflow ==
    /\ DefiniteEntry => ~add(U64(pos), ev.length.v.some).ovf
    /\ \A i \in DefiniteFrames :
          ~add(U64(stack[i].e1.pos), stack[i].length_spec.some).ovf

\* the same, for the lengths whose sum with the position fits the word
C11_ExactlyOneTLVWithoutOverflow == NoWordOverflow => C11_ExactlyOneTLV

C11_WitnessReturn ==
    /\ ev.op = "read_general_return"
    /\ IsSome(ev.fr.length_spec)
    /\ ev.r.t = "Ok"
    /\ ev.fr.e0.pos > 0
    /\ ToNat(ev.fr.length_spec.some) > 0
    /\ ev.fr.e0.buf_len > pos

C11_WitnessEof ==
    /\ DefiniteEntry
    /\ IsSmall(ev.length.v.some)
    /\ ev.r = Err("Eof")

C11_WitnessExtra ==
    /\ ev.op = "read_general_return"
    /\ IsSome(ev.fr.length_spec)
    /\ ev.cr.t = "Ok"
    /\ ev.r = Err("Extra")

(***************************************************************************)
(* C12: read_general accepts the indefinite form only in Ber mode and only *)
(* for a Constructed identifier, and leaves the view unshrunk; otherwise   *)
(* it fails with Invalid before the callback runs.  It returns Ok only     *)
(* when the callback's content is followed by the two bytes 00 00, which   *)
(* it consumes.  30 80 02 01 01 00 00 is the sequence [1] in Ber mode and  *)
(* Invalid in Der mode.                                                    *)
(***************************************************************************)
\* read_general has read the length octet 0x80 at a depth that lets it go on
IndefiniteEntry ==
    /\ ev.op = "read_general"
    /\ ev.e0.depth <= BER_READER_STACK_DEPTH
    /\ ev.matched
    /\ ev.length = Ok(None)

\* the bytes 00 00 stand at position p of the view of n bytes
EndOfContentsAt(p, n) ==
    /\ p + 2 <= n
    /\ input[p + 1] = 0
    /\ input[p + 2] = 0

IndefExample == <<48, 128, 2, 1, 1, 0, 0>>

\* the value of SEQUENCE { 1 } read by the callback "seq"
IndefExampleValue == [seq |-> <<[i64 |-> U64(1)], None, [i64 |-> U64(0)]>>]

C12_IndefiniteEntry ==
    IndefiniteEntry =>
        IF ev.e0.mode = "Ber" /\ ev.identifier.v.pc = "Constructed"
        THEN /\ ev.r.t = "Ok"
             /\ ctl.c = "body"
             /\ buf_len = ev.e0.buf_len
             /\ pos = ev.e0.pos + Len(ev.length_octets) + 1
             /\ ev.length_octets = <<128>>
        ELSE /\ ev.r = Err("Invalid")
             /\ ctl.c = "ret"

C12_IndefiniteReturn ==
    (ev.op = "read_general_return" /\ ev.fr.length_spec = None) =>
        /\ ev.fr.pc = "Constructed"
        /\ ev.fr.e0.mode = "Ber"
        /\ ev.r.t = "Ok" <=>
              (ev.cr.t = "Ok" /\ EndOfContentsAt(ev.e0.pos, ev.e0.buf_len))
        /\ ev.r.t = "Ok" =>
              /\ ev.r = ev.cr
              /\ pos = ev.e0.pos + 2
              /\ buf_len = ev.fr.e0.buf_len
              /\ depth = ev.fr.e0.depth

C12_IndefiniteExample ==
    (Done /\ input = IndefExample /\ prog = "seq") =>
        ctl.r = IF mode = "Ber" THEN Ok(IndefExampleValue) ELSE Err("Invalid")

C12_IndefiniteForm ==
    /\ C12_IndefiniteEntry
    /\ C12_IndefiniteReturn
    /\ C12_IndefiniteExample

C12_Witness ==
    /\ Done
    /\ input = IndefExample
    /\ prog = "seq"
    /\ mode = "Ber"
    /\ ctl.r = Ok(IndefExampleValue)

C12_WitnessDer ==
    /\ IndefiniteEntry
    /\ ev.e0.mode = "Der"
    /\ ev.identifier.v.pc = "Constructed"
    /\ ev.r = Err("Invalid")

C12_WitnessPrimitive ==
    /\ IndefiniteEntry
    /\ ev.e0.mode = "Ber"
    /\ ev.identifier.v.pc = "Primitive"
    /\ ev.r = Err("Invalid")

C12_WitnessNoEndOfContents ==
    /\ ev.op = "read_general_return"
    /\ ev.fr.length_spec = None
    /\ ev.cr.t = "Ok"
    /\ ev.r.t = "Err"

(***************************************************************************)
(* C13: read_oid rejects a primitive body with Invalid exactly when the    *)
(* body is empty, its last byte has bit 7 set, or some subidentifier       *)
(* begins with the byte 0x80; a 0x80 byte inside a subidentifier is no     *)
(* reason for rejection, and every other body whose subidentifiers fit in  *)
(* 64 bits decodes successfully.                                           *)
(***************************************************************************)
\* byte i of the body is the first byte of a subidentifier
StartsSubId(body, i) == i = 1 \/ body[i - 1] < 128

\* the three reasons of rejection
MalformedOid(body) ==
    \/ Len(body) = 0
    \/ body[Len(body)] >= 128
    \/ \E i \in 1..Len(body) : body[i] = 128 /\ StartsSubId(body, i)

\* every subidentifier has at most 9 bytes, that is 63 bits
SubIdsFit(body) ==
    \A i \in 1..Len(body) :
        \E j \in i..Len(body) : j - i <= WordBytes /\ body[j] < 128

\* a 0x80 byte that continues a subidentifier
InnerZero(body) ==
    \E i \in 1..Len(body) : body[i] = 128 /\ ~StartsSubId(body, i)

OidRead == ev.op = "read_oid" /\ ev.pc = "Primitive" /\ ev.r.t # "Panic"

C13_OidRejection ==
    OidRead =>
        /\ ev.r = Err("Invalid") <=> MalformedOid(ev.body)
        /\ (~MalformedOid(ev.body) /\ SubIdsFit(ev.body)) => ev.r.t = "Ok"

\* the same, for the bodies with no 0x80 byte inside a subidentifier
C13_OidRejectionWithoutInnerZero ==
    (OidRead /\ ~InnerZero(ev.body)) =>
        /\ ev.r = Err("Invalid") <=> MalformedOid(ev.body)
        /\ (~MalformedOid(ev.body) /\ SubIdsFit(ev.body)) => ev.r.t = "Ok"

C13_WitnessInnerZero ==
    /\ OidRead
    /\ ev.body = <<129, 128, 0>>
    /\ ev.r = Err("Invalid")

C13_WitnessLongSubId ==
    /\ OidRead
    /\ Len(ev.body) = WordBytes + 1
    /\ ~MalformedOid(ev.body)
    /\ SubIdsFit(ev.body)
    /\ ev.r.t = "Ok"

C13_WitnessIntegerOverflow ==
    /\ OidRead
    /\ ~MalformedOid(ev.body)
    /\ ev.r = Err("IntegerOverflow")

====
